---- MODULE Spec2Model ----
(***************************************************************************)
(* Model of src/app.py: a Flask application with a JSON-file user store    *)
(* (users.json), register / login / logout handlers working on a signed    *)
(* per-client session cookie, and three login-protected routes.            *)
(*                                                                         *)
(* Strings are sequences of one-character strings, so that strip() and     *)
(* len() are computed and not assumed.  The durable file is modelled by    *)
(* what load_users can observe of it: absent, unparseable, or a JSON       *)
(* document {"users": [...]}.  A request handler is one action, except     *)
(* that register is cut at its accesses to the shared file (check, load,   *)
(* open-for-write, dump) in the interleaved specification Spec; SpecSeq    *)
(* runs the same code one request at a time.  Two writers are interleaved  *)
(* at open and at dump+close, not byte by byte.                            *)
(***************************************************************************)
EXTENDS Naturals, Sequences, FiniteSets

\* ------------------------------------------------------------ bounds
MaxUsers == 2           \* a registration proceeds only while the file holds fewer records

\* ------------------------------------------------------------ program constants
MinUsernameLen == 3     \* app.py:82
MinPasswordLen == 6     \* app.py:86
MinUidLen      == 6     \* app.py:137, app.py:194

Clients    == {"c1", "c2"}
Whitespace == {" "}
Digits     == {"1"}

Rep(ch, n) == [i \in 1..n |-> ch]

\* What a client types into the username, password and uid fields: empty, blank,
\* one short of the minimum, the minimum, and padded with blanks.
NameInputs == {<<>>, <<" ">>, <<"a", "b">>, <<" ", "a", "b", " ">>,
               <<"a", "b", "c">>, <<" ", "a", "b", "c", " ">>, <<"a", " ", "d">>}
PwInputs   == {<<>>, <<" ">>, Rep("p", 5), Rep("p", 6)}
UidInputs  == {<<>>, Rep("1", 5), Rep("1", 6),
               <<"1", "1", "1", "x", "1", "1">>, <<" ">> \o Rep("1", 6)}
Salts      == {"s1"}            \* what generate_password_hash may draw

SetMin(S) == CHOOSE x \in S : \A y \in S : x <= y
SetMax(S) == CHOOSE x \in S : \A y \in S : x >= y

\* ------------------------------------------------------------ str methods
\* str.strip(): drop leading and trailing whitespace, keep inner whitespace
strip(s) ==
    LET keep == {i \in 1..Len(s) : s[i] \notin Whitespace}
    IN  IF keep = {} THEN <<>> ELSE SubSeq(s, SetMin(keep), SetMax(keep))

\* str.isdigit(): non-empty and every character a digit
isdigit(s) == Len(s) > 0 /\ \A i \in 1..Len(s) : s[i] \in Digits

\* ------------------------------------------------------------ password hashing
\* werkzeug's salted hash: the digest is a one-way function of salt and password,
\* idealised as an injective pairing that is never compared with a plaintext.
Digest(salt, password) == <<salt, password>>

generate_password_hash(password, salt) ==
    [salt |-> salt, digest |-> Digest(salt, password)]

check_password_hash(pwhash, password) ==
    Digest(pwhash.salt, password) = pwhash.digest

\* ------------------------------------------------------------ the durable file
Missing == [kind |-> "missing", users |-> <<>>]
Corrupt == [kind |-> "corrupt", users |-> <<>>]   \* truncated or partly written
JsonFile(users) == [kind |-> "json", users |-> users]

\* load_users(): FileNotFoundError and JSONDecodeError both give {"users": []}
load_users(f) ==
    IF f.kind = "missing" THEN [users |-> <<>>]
    ELSE IF f.kind = "corrupt" THEN [users |-> <<>>]
    ELSE [users |-> f.users]

\* find_user with the `return None` inside the loop: only the first record is compared
find_user_first_only(f, username) ==
    LET users == load_users(f).users
    IN  IF Len(users) > 0 /\ users[1].username = username THEN <<users[1]>> ELSE <<>>

\* find_user(): linear scan, first exact match; <<>> stands for None
find_user(f, username) ==
    LET users == load_users(f).users
        hits  == {i \in 1..Len(users) : users[i].username = username}
    IN  IF hits = {} THEN <<>> ELSE <<users[SetMin(hits)]>>

\* save_users writing to the file before it fails: the record is on disk
save_outcomes_late_failure(f, users_data) ==
    { [saved |-> "open_failed", file |-> f],
      [saved |-> "dump_failed", file |-> JsonFile(users_data.users)],
      [saved |-> "ok",          file |-> JsonFile(users_data.users)] }

\* save_users adding the new record to what the file holds at the time of the
\* write, instead of overwriting the file with the copy
save_outcomes_merging(f, users_data) ==
    { [saved |-> "open_failed", file |-> f],
      [saved |-> "dump_failed", file |-> Corrupt],
      [saved |-> "ok",
       file  |-> JsonFile(load_users(f).users
                            \o <<users_data.users[Len(users_data.users)]>>)] }

\* save_users(): open(USERS_FILE, 'w') truncates, json.dump writes; any exception
\* is logged and swallowed.  The three ways it can end, with the file each leaves.
save_outcomes(f, users_data) ==
    { [saved |-> "open_failed", file |-> f],
      [saved |-> "dump_failed", file |-> Corrupt],
      [saved |-> "ok",          file |-> JsonFile(users_data.users)] }

\* ------------------------------------------------------------ responses
\* What a handler sends back: status code, the message it flashes, the page it
\* renders or the redirect target, and the "error" field of a JSON body.
Out(code, flash, body, error) ==
    [code |-> code, flash |-> flash, body |-> body, error |-> error]

Redirect(flash, target) == Out(302, flash, target, "")
Render(flash, page)     == Out(200, flash, page, "")
Json(code, error)       == Out(code, "", "json", error)

Continue == Out(0, "", "continue", "")    \* no early return: the handler goes on

\* register with the two length checks in the other order
register_validate_swapped(f, username_raw, password) ==
    LET username == strip(username_raw)
    IN  IF username = <<>> \/ password = <<>>
          THEN Redirect("Please fill in all fields", "/login")
        ELSE IF Len(password) < MinPasswordLen
          THEN Redirect("Password must be at least 6 characters", "/login")
        ELSE IF Len(username) < MinUsernameLen
          THEN Redirect("Username must be at least 3 characters", "/login")
        ELSE IF find_user(f, username) # <<>>
          THEN Redirect("Username already exists", "/login")
        ELSE Continue

\* register without the existence check
register_validate_unchecked(f, username_raw, password) ==
    LET username == strip(username_raw)
    IN  IF username = <<>> \/ password = <<>>
          THEN Redirect("Please fill in all fields", "/login")
        ELSE IF Len(username) < MinUsernameLen
          THEN Redirect("Username must be at least 3 characters", "/login")
        ELSE IF Len(password) < MinPasswordLen
          THEN Redirect("Password must be at least 6 characters", "/login")
        ELSE Continue

\* ------------------------------------------------------------ register, lines 75-93
register_validate(f, username_raw, password) ==
    LET username == strip(username_raw)
    IN  IF username = <<>> \/ password = <<>>
          THEN Redirect("Please fill in all fields", "/login")
        ELSE IF Len(username) < MinUsernameLen
          THEN Redirect("Username must be at least 3 characters", "/login")
        ELSE IF Len(password) < MinPasswordLen
          THEN Redirect("Password must be at least 6 characters", "/login")
        ELSE IF find_user(f, username) # <<>>
          THEN Redirect("Username already exists", "/login")
        ELSE Continue

\* register looking the username up again in the copy it loaded
register_append_rechecking(f, username, password, salt) ==
    LET users_data == load_users(f)
        new_user   == [username |-> username,
                       password_hash |-> generate_password_hash(password, salt)]
    IN  IF find_user(f, username) # <<>> THEN users_data
        ELSE [users |-> Append(users_data.users, new_user)]

\* register, lines 96-102: load the file again and append the new record
register_append(f, username, password, salt) ==
    LET users_data == load_users(f)
        new_user   == [username |-> username,
                       password_hash |-> generate_password_hash(password, salt)]
    IN  [users |-> Append(users_data.users, new_user)]

\* register, lines 105-107: whatever save_users did, the session is set
register_finish(username) ==
    [session |-> {username},
     out     |-> Redirect("Account created successfully! Welcome!", "/dashboard")]

\* login telling an unknown username from a wrong password
login_telling(sess, f, username_raw, password) ==
    LET username == strip(username_raw)
        user     == find_user(f, username)
    IN  IF username = <<>> \/ password = <<>>
          THEN [session |-> sess,
                out |-> Render("Please fill in all fields", "login.html")]
        ELSE IF user = <<>>
          THEN [session |-> sess, out |-> Render("Unknown user", "login.html")]
        ELSE IF check_password_hash(user[1].password_hash, password)
          THEN [session |-> {username},
                out |-> Redirect("Welcome back, pixel warrior!", "/dashboard")]
        ELSE [session |-> sess,
              out |-> Render("Invalid credentials. Try again!", "login.html")]

\* ------------------------------------------------------------ login, lines 54-70
login(sess, f, username_raw, password) ==
    LET username == strip(username_raw)
        user     == find_user(f, username)
    IN  IF username = <<>> \/ password = <<>>
          THEN [session |-> sess,
                out |-> Render("Please fill in all fields", "login.html")]
        ELSE IF user # <<>> /\ check_password_hash(user[1].password_hash, password)
          THEN [session |-> {username},
                out |-> Redirect("Welcome back, pixel warrior!", "/dashboard")]
        ELSE [session |-> sess,
              out |-> Render("Invalid credentials. Try again!", "login.html")]

\* login, GET: line 70 only
login_page(sess) == [session |-> sess, out |-> Render("", "login.html")]

\* ------------------------------------------------------------ index, dashboard, logout
index(sess) ==
    IF sess # {} THEN Redirect("", "/dashboard") ELSE Redirect("", "/login")

dashboard(sess) ==
    IF sess = {} THEN Redirect("Please log in first", "/login")
    ELSE Render("", "dashboard.html")

logout(sess) ==
    [session |-> {}, out |-> Redirect("Logged out successfully", "/login")]

\* ------------------------------------------------------------ the two proxies
\* what requests.get can come back with: a status code or an exception
Upstream == {"200", "404", "429", "503", "Timeout", "RequestException"}

uid_check(uid_raw) ==
    LET uid == strip(uid_raw)
    IN  IF uid = <<>> THEN Json(400, "UID is required")
        ELSE IF ~isdigit(uid) \/ Len(uid) < MinUidLen
          THEN Json(400, "Invalid UID format")
        ELSE Continue

send_like(sess, uid_raw, upstream) ==
    IF sess = {} THEN Json(401, "Not authenticated")
    ELSE IF uid_check(uid_raw) # Continue THEN uid_check(uid_raw)
    ELSE IF upstream = "200" THEN Json(200, "")
    ELSE IF upstream = "404" THEN Json(404, "Player not found")
    ELSE IF upstream = "429"
      THEN Json(429, "Rate limit exceeded. Please try again later.")
    ELSE IF upstream = "Timeout"
      THEN Json(500, "Request timed out. Please try again.")
    ELSE IF upstream = "RequestException"
      THEN Json(500, "Failed to connect to API")
    ELSE Json(500, "API returned status code")

\* view_profile without the session check
view_profile_open(sess, uid_raw, upstream) ==
    IF uid_check(uid_raw) # Continue THEN uid_check(uid_raw)
    ELSE IF upstream = "200" THEN Json(200, "")
    ELSE IF upstream = "404" THEN Json(404, "Player not found")
    ELSE IF upstream = "Timeout"
      THEN Json(500, "Request timed out. Please try again.")
    ELSE IF upstream = "RequestException"
      THEN Json(500, "Failed to connect to API")
    ELSE Json(500, "API returned status code")

view_profile(sess, uid_raw, upstream) ==
    IF sess = {} THEN Json(401, "Not authenticated")
    ELSE IF uid_check(uid_raw) # Continue THEN uid_check(uid_raw)
    ELSE IF upstream = "200" THEN Json(200, "")
    ELSE IF upstream = "404" THEN Json(404, "Player not found")
    ELSE IF upstream = "Timeout"
      THEN Json(500, "Request timed out. Please try again.")
    ELSE IF upstream = "RequestException"
      THEN Json(500, "Failed to connect to API")
    ELSE Json(500, "API returned status code")

\* ------------------------------------------------------------ state
VARIABLES
    file,       \* users.json as load_users can observe it
    session,    \* per client: {} when the cookie has no 'username', else {username}
    pc,         \* per client: where its register request stands
    local,      \* per client: the locals of its register request
    resp,       \* the request answered last: who, what, the form, the response
    failed      \* history: some save_users call has failed

vars == <<file, session, pc, local, resp, failed>>

NoLocal == [username |-> <<>>, password |-> <<>>, users_data |-> [users |-> <<>>]]

\* form: <<username, password>> as typed, kept for the requests handled one at
\* a time; <<>> for a request without a form and for the interleaved steps
Answer(c, op, form, out, saved) ==
    [client |-> c, op |-> op, form |-> form, out |-> out, saved |-> saved]

Init ==
    /\ file = Missing
    /\ session = [c \in Clients |-> {}]
    /\ pc = [c \in Clients |-> "idle"]
    /\ local = [c \in Clients |-> NoLocal]
    /\ resp = Answer("c1", "none", <<>>, Continue, "none")
    /\ failed = FALSE

\* ------------------------------------------------------------ requests without file writes
Index(c) ==
    /\ pc[c] = "idle"
    /\ resp' = Answer(c, "index", <<>>, index(session[c]), "none")
    /\ UNCHANGED <<file, session, pc, local, failed>>

LoginPage(c) ==
    /\ pc[c] = "idle"
    /\ resp' = Answer(c, "login_page", <<>>, login_page(session[c]).out, "none")
    /\ UNCHANGED <<file, session, pc, local, failed>>

Login(c, username_raw, password) ==
    /\ pc[c] = "idle"
    /\ LET r == login(session[c], file, username_raw, password)
       IN  /\ session' = [session EXCEPT ![c] = r.session]
           /\ resp' = Answer(c, "login", <<username_raw, password>>, r.out, "none")
    /\ UNCHANGED <<file, pc, local, failed>>

Logout(c) ==
    /\ pc[c] = "idle"
    /\ session' = [session EXCEPT ![c] = logout(session[c]).session]
    /\ resp' = Answer(c, "logout", <<>>, logout(session[c]).out, "none")
    /\ UNCHANGED <<file, pc, local, failed>>

Dashboard(c) ==
    /\ pc[c] = "idle"
    /\ resp' = Answer(c, "dashboard", <<>>, dashboard(session[c]), "none")
    /\ UNCHANGED <<file, session, pc, local, failed>>

SendLike(c, uid_raw, upstream) ==
    /\ pc[c] = "idle"
    /\ resp' = Answer(c, "send_like", <<>>,
                      send_like(session[c], uid_raw, upstream), "none")
    /\ UNCHANGED <<file, session, pc, local, failed>>

ViewProfile(c, uid_raw, upstream) ==
    /\ pc[c] = "idle"
    /\ resp' = Answer(c, "view_profile", <<>>,
                      view_profile(session[c], uid_raw, upstream), "none")
    /\ UNCHANGED <<file, session, pc, local, failed>>

\* ------------------------------------------------------------ register, one request at a time
\* lines 75-107 run without another request in between
Register(c, username_raw, password, salt) ==
    LET username   == strip(username_raw)
        checked    == register_validate(file, username_raw, password)
        users_data == register_append(file, username, password, salt)
    IN  /\ pc[c] = "idle"
        /\ IF checked # Continue
             THEN /\ resp' = Answer(c, "register", <<username_raw, password>>, checked, "none")
                  /\ UNCHANGED <<file, session, failed>>
             ELSE \E o \in save_outcomes(file, users_data) :
                    /\ file' = o.file
                    /\ session' = [session EXCEPT ![c] = register_finish(username).session]
                    /\ resp' = Answer(c, "register", <<username_raw, password>>,
                                      register_finish(username).out, o.saved)
                    /\ failed' = (failed \/ o.saved # "ok")
        /\ UNCHANGED <<pc, local>>

NextSeq ==
    \/ \E c \in Clients : Index(c)
    \/ \E c \in Clients : LoginPage(c)
    \/ \E c \in Clients, u \in NameInputs, p \in PwInputs : Login(c, u, p)
    \/ \E c \in Clients : Logout(c)
    \/ \E c \in Clients : Dashboard(c)
    \/ \E c \in Clients, uid \in UidInputs, up \in Upstream : SendLike(c, uid, up)
    \/ \E c \in Clients, uid \in UidInputs, up \in Upstream : ViewProfile(c, uid, up)
    \/ \E c \in Clients, u \in NameInputs, p \in PwInputs, salt \in Salts :
          Register(c, u, p, salt)

SpecSeq == Init /\ [][NextSeq]_vars

\* ------------------------------------------------------------ the store round trip
\* save_users(load_users()), applied to whatever the requests left in the file
RoundTrip ==
    /\ \A c \in Clients : pc[c] = "idle"
    /\ \E o \in save_outcomes(file, load_users(file)) :
          /\ file' = o.file
          /\ resp' = Answer("c1", "round_trip", <<>>, Continue, o.saved)
          /\ failed' = (failed \/ o.saved # "ok")
    /\ UNCHANGED <<session, pc, local>>

NextStore ==
    \/ NextSeq
    \/ RoundTrip

SpecStore == Init /\ [][NextStore]_vars

\* ------------------------------------------------------------ register, interleaved
\* The same handler cut at its accesses to the shared file, so that the requests
\* of two clients interleave: check (lines 75-93), load (96-102), open (31),
\* dump (32) and the rest of the handler (105-107).  Spec is the specification
\* of concurrent registrations (and logout); every route is in SpecSeq.
RegisterRejected(c, username_raw, password) ==
    /\ pc[c] = "idle"
    /\ register_validate(file, username_raw, password) # Continue
    /\ resp' = Answer(c, "register", <<>>,
                      register_validate(file, username_raw, password), "none")
    /\ UNCHANGED <<file, session, pc, local, failed>>

RegisterChecked(c, username_raw, password) ==
    /\ pc[c] = "idle"
    /\ register_validate(file, username_raw, password) = Continue
    /\ pc' = [pc EXCEPT ![c] = "load"]
    /\ local' = [local EXCEPT ![c] = [NoLocal EXCEPT !.username = strip(username_raw),
                                                     !.password = password]]
    /\ UNCHANGED <<file, session, resp, failed>>

RegisterLoad(c, salt) ==
    /\ pc[c] = "load"
    /\ Len(load_users(file).users) < MaxUsers
    /\ pc' = [pc EXCEPT ![c] = "open"]
    /\ local' = [local EXCEPT ![c].users_data =
                    register_append(file, local[c].username, local[c].password, salt)]
    /\ UNCHANGED <<file, session, resp, failed>>

\* the handler after save_users returned in the way `saved`
RegisterFinish(c, saved) ==
    /\ session' = [session EXCEPT ![c] = register_finish(local[c].username).session]
    /\ resp' = Answer(c, "register", <<>>,
                      register_finish(local[c].username).out, saved)
    /\ failed' = (failed \/ saved # "ok")
    /\ pc' = [pc EXCEPT ![c] = "idle"]
    /\ local' = [local EXCEPT ![c] = NoLocal]

\* open(USERS_FILE, 'w') raises and leaves the file as it is ...
RegisterOpenFails(c) ==
    /\ pc[c] = "open"
    /\ \E o \in save_outcomes(file, local[c].users_data) :
          /\ o.saved = "open_failed"
          /\ file' = o.file
          /\ RegisterFinish(c, o.saved)

\* ... or truncates it
RegisterOpen(c) ==
    /\ pc[c] = "open"
    /\ file' = Corrupt
    /\ pc' = [pc EXCEPT ![c] = "dump"]
    /\ UNCHANGED <<session, local, resp, failed>>

\* json.dump and the close write the copy, or fail part-way
RegisterDump(c) ==
    /\ pc[c] = "dump"
    /\ \E o \in save_outcomes(file, local[c].users_data) :
          /\ o.saved # "open_failed"
          /\ file' = o.file
          /\ RegisterFinish(c, o.saved)

Next ==
    \/ \E c \in Clients : Logout(c)
    \/ \E c \in Clients, u \in NameInputs, p \in PwInputs : RegisterRejected(c, u, p)
    \/ \E c \in Clients, u \in NameInputs, p \in PwInputs : RegisterChecked(c, u, p)
    \/ \E c \in Clients, salt \in Salts : RegisterLoad(c, salt)
    \/ \E c \in Clients : RegisterOpenFails(c)
    \/ \E c \in Clients : RegisterOpen(c)
    \/ \E c \in Clients : RegisterDump(c)

Spec == Init /\ [][Next]_vars

\* ------------------------------------------------------------ vocabulary of the properties
\* Stated apart from the handlers: trimming by peeling blanks, the store as the
\* set of its usernames, the four checks of register as numbered conditions.
RECURSIVE TrimLeft(_)
TrimLeft(s) == IF s # <<>> /\ Head(s) = " " THEN TrimLeft(Tail(s)) ELSE s

RECURSIVE TrimRight(_)
TrimRight(s) ==
    IF s # <<>> /\ s[Len(s)] = " " THEN TrimRight(SubSeq(s, 1, Len(s) - 1)) ELSE s

Trimmed(s) == TrimRight(TrimLeft(s))

StoredNames(f) ==
    IF f.kind = "json" THEN {f.users[i].username : i \in 1..Len(f.users)} ELSE {}

Registered == Redirect("Account created successfully! Welcome!", "/dashboard")
LoggedIn   == Redirect("Welcome back, pixel warrior!", "/dashboard")
BadLogin   == Render("Invalid credentials. Try again!", "login.html")
Duplicate  == Redirect("Username already exists", "/login")

ValidationErrors ==
    <<Redirect("Please fill in all fields", "/login"),
      Redirect("Username must be at least 3 characters", "/login"),
      Redirect("Password must be at least 6 characters", "/login"),
      Duplicate>>

FailingChecks(f, username_raw, password) ==
    LET t == Trimmed(username_raw)
    IN  {k \in 1..4 :
           \/ k = 1 /\ (Len(t) = 0 \/ Len(password) = 0)
           \/ k = 2 /\ Len(t) <= 2
           \/ k = 3 /\ Len(password) <= 5
           \/ k = 4 /\ t \in StoredNames(f)}

OrderedReference(f, username_raw, password) ==
    LET failing == FailingChecks(f, username_raw, password)
    IN  IF failing = {} THEN Registered ELSE ValidationErrors[SetMin(failing)]

\* the step answers a register / login request of the given client
AnswersRegister == resp'.op = "register" /\ resp'.form # <<>>
AnswersLogin    == resp'.op = "login"

\* ------------------------------------------------------------ C9
\* C9: register reports the result of the first failing check in the order
\* (1) a field empty, (2) username shorter than 3, (3) password shorter than 6,
\* (4) username in the store, and success when none fails; a trimmed username of
\* length 2 is rejected and one of length 3 passes the length check, a password
\* of length 5 is rejected and one of length 6 passes.
C9_OrderedChecks ==
    [][AnswersRegister =>
         /\ resp'.out = OrderedReference(file, resp'.form[1], resp'.form[2])
         /\ Len(Trimmed(resp'.form[1])) = 2 => resp'.out \in {ValidationErrors[1], ValidationErrors[2]}
         /\ Len(resp'.form[2]) = 5 => resp'.out # Registered
         /\ (Len(Trimmed(resp'.form[1])) = 3 /\ Len(resp'.form[2]) = 6)
               => resp'.out \in {Registered, Duplicate}
      ]_vars

\* a short username together with a short password: the username check decides
C9_Witness ==
    /\ resp.op = "register" /\ resp.form # <<>>
    /\ Len(Trimmed(resp.form[1])) = 2
    /\ Len(resp.form[2]) = 5
    /\ resp.out = ValidationErrors[2]

\* ------------------------------------------------------------ C2
\* C2 as claimed: register with a username that is in the store answers with
\* the duplicate-username error and leaves the store as it was.
C2_AlwaysDuplicateError ==
    [][(AnswersRegister /\ Trimmed(resp'.form[1]) \in StoredNames(file))
          => (resp'.out = Duplicate /\ file' = file)]_vars

\* C2 as amended: register with a username that is in the store is rejected
\* with a validation error and leaves the store and the session as they were;
\* the error is the duplicate-username one when the password has at least 6
\* characters, and otherwise that of the earlier failing password check.
C2_DuplicateRejected ==
    [][(AnswersRegister /\ Trimmed(resp'.form[1]) \in StoredNames(file))
          => /\ resp'.out \in {ValidationErrors[1], ValidationErrors[3], Duplicate}
             /\ Len(resp'.form[2]) >= 6 => resp'.out = Duplicate
             /\ Len(resp'.form[2]) < 6 => resp'.out # Duplicate
             /\ file' = file
             /\ session' = session]_vars

C2_Witness ==
    /\ resp.op = "register" /\ resp.form # <<>>
    /\ Trimmed(resp.form[1]) \in StoredNames(file)
    /\ resp.out = Duplicate

\* ------------------------------------------------------------ C7
\* C7: a login with both fields filled in that fails, because no user has the
\* username or because the password does not verify against the stored hash,
\* gets one and the same response (the login page with "Invalid credentials.
\* Try again!") and leaves the session as it was.
KnownUser(f, username_raw) == Trimmed(username_raw) \in StoredNames(f)

Verifies(f, username_raw, password) ==
    \E i \in 1..Len(f.users) :
        /\ f.users[i].username = Trimmed(username_raw)
        /\ \A j \in 1..(i - 1) : f.users[j].username # Trimmed(username_raw)
        /\ check_password_hash(f.users[i].password_hash, password)

C7_GenericLoginFailure ==
    [][(/\ AnswersLogin
        /\ Trimmed(resp'.form[1]) # <<>> /\ resp'.form[2] # <<>>
        /\ ~KnownUser(file, resp'.form[1]) \/ ~Verifies(file, resp'.form[1], resp'.form[2]))
          => (resp'.out = BadLogin /\ session' = session /\ file' = file)]_vars

\* a registered username with a wrong password got the generic answer
C7_Witness ==
    /\ resp.op = "login"
    /\ resp.form[2] # <<>>
    /\ KnownUser(file, resp.form[1])
    /\ ~Verifies(file, resp.form[1], resp.form[2])
    /\ resp.out = BadLogin

\* ------------------------------------------------------------ C3
\* C3: without a username in the session the dashboard redirects to the login
\* page and both proxy endpoints answer 401 "Not authenticated"; a session
\* gets a username only from a successful login or register of that client
\* (that very username), and loses it only by that client's logout, which
\* always leaves the session empty.
C3_ProtectedNeedsSession ==
    [][/\ (resp'.op = "dashboard" /\ session[resp'.client] = {})
            => resp'.out = Redirect("Please log in first", "/login")
       /\ (resp'.op \in {"send_like", "view_profile"} /\ session[resp'.client] = {})
            => resp'.out = Json(401, "Not authenticated")
       /\ \A c \in Clients :
            session'[c] # session[c] =>
               /\ resp'.client = c
               /\ \/ resp'.op = "logout" /\ session'[c] = {}
                  \/ /\ resp'.op = "login" /\ resp'.out = LoggedIn
                     /\ session'[c] = {Trimmed(resp'.form[1])}
                  \/ /\ resp'.op = "register" /\ resp'.out = Registered
                     /\ session'[c] = {Trimmed(resp'.form[1])}
       /\ resp'.op = "logout" => session'[resp'.client] = {}
      ]_vars

\* accounts exist, the client has no session, the proxy refused it
C3_Witness ==
    /\ resp.op = "view_profile"
    /\ session[resp.client] = {}
    /\ resp.out = Json(401, "Not authenticated")
    /\ StoredNames(file) # {}

\* ------------------------------------------------------------ C8
\* C8: when save_users fails during a register that passed every check, the
\* request still answers "Account created successfully!", the session is bound
\* to the username, and the file is untouched or unparseable: the username is
\* not in the store.
C8_WriteFailureSwallowed ==
    [][(AnswersRegister /\ resp'.saved \in {"open_failed", "dump_failed"})
          => /\ FailingChecks(file, resp'.form[1], resp'.form[2]) = {}
             /\ resp'.out = Registered
             /\ session'[resp'.client] = {Trimmed(resp'.form[1])}
             /\ Trimmed(resp'.form[1]) \notin StoredNames(file')
             /\ file' = file \/ file'.kind = "corrupt"]_vars

C8_Witness ==
    /\ resp.op = "register" /\ resp.saved = "dump_failed"
    /\ resp.out = Registered
    /\ session[resp.client] = {Trimmed(resp.form[1])}
    /\ Trimmed(resp.form[1]) \notin StoredNames(file)

\* ------------------------------------------------------------ C4
\* C4: with registrations handled one at a time from the empty store, no two
\* records of the file have the same username.
C4_UniqueUsernames ==
    \A i, j \in 1..Len(file.users) :
        i # j => file.users[i].username # file.users[j].username

C4_Witness == file.kind = "json" /\ Len(file.users) = 2

\* ------------------------------------------------------------ C1
\* C1: a register with a trimmed username of at least 3 characters that is not
\* in the store and a password of at least 6 characters succeeds and binds the
\* session to the username, and a login with the same form then succeeds.
C1_RegisterThenLogin ==
    [][(/\ AnswersRegister
        /\ Len(Trimmed(resp'.form[1])) >= 3 /\ Len(resp'.form[2]) >= 6
        /\ Trimmed(resp'.form[1]) \notin StoredNames(file))
          => /\ resp'.out = Registered
             /\ session'[resp'.client] = {Trimmed(resp'.form[1])}
             /\ login(session'[resp'.client], file', resp'.form[1], resp'.form[2]).out
                   = LoggedIn]_vars

\* ------------------------------------------------------------ C10
\* C10: save_users(load_users()) leaves the records of the store as they were
\* (so that a second application changes nothing more either).
C10_RoundTripNoOp ==
    [][resp'.op = "round_trip" =>
          load_users(file').users = load_users(file).users]_vars

\* ------------------------------------------------------------ C5
\* C5: a save that completes leaves in the file exactly the copy its request
\* loaded earlier plus its own record, whatever other requests wrote since, and
\* the request reports success; so of two interleaved registrations of different
\* usernames that both succeed, the later save can drop the earlier record.
C5_SaveOverwrites ==
    [][\A c \in Clients :
          (pc[c] = "dump" /\ pc'[c] = "idle" /\ resp'.saved = "ok")
             => /\ file' = JsonFile(local[c].users_data.users)
                /\ session'[c] = {local[c].username}
                /\ resp'.out = Registered]_vars

\* no write ever failed, both requests are over, and a client is logged in
\* under a username that is not in the file
C5_Witness ==
    /\ ~failed
    /\ \A c \in Clients : pc[c] = "idle"
    /\ file.kind = "json"
    /\ \E c \in Clients : session[c] # {} /\ session[c] \cap StoredNames(file) = {}

\* ------------------------------------------------------------ C6
\* C6: a registration that passed the existence check appends its record to
\* whatever it loads, without looking the username up again; so two
\* registrations of one username that both pass the check before either saves
\* can leave two records with that username.
C6_AppendsUnchecked ==
    [][\A c \in Clients :
          (pc[c] = "load" /\ pc'[c] = "open")
             => LET copy == local'[c].users_data.users
                IN  /\ Len(copy) = Len(load_users(file).users) + 1
                    /\ SubSeq(copy, 1, Len(copy) - 1) = load_users(file).users
                    /\ copy[Len(copy)].username = local[c].username]_vars

C6_Witness ==
    /\ ~failed
    /\ file.kind = "json"
    /\ \E i, j \in 1..Len(file.users) :
          i # j /\ file.users[i].username = file.users[j].username

====
